---- MODULE Spec2Model ----
(***************************************************************************)
(* Naive String Search Visualizer (Lab Questions/Lab3.py).                 *)
(*                                                                         *)
(* The step generator naive_search_steps is a pure function, modelled as   *)
(* an operator.  The Streamlit page is a script that is re-run from top to *)
(* bottom on every user interaction; one script run is one action of the   *)
(* model.  Strings are sequences of one-character strings; Python's        *)
(* 0-based text[i] is the sequence element text[i + 1].                    *)
(***************************************************************************)
EXTENDS Integers, Sequences, FiniteSets

VARIABLES
    text,            \* st.session_state["text"]
    pattern,         \* st.session_state["pattern"]
    text_input,      \* st.session_state["text_input"], the Text widget's value
    pattern_input,   \* st.session_state["pattern_input"], the Pattern widget's value
    steps,           \* st.session_state["steps"]
    step_idx,        \* st.session_state["step_idx"]
    found_indices,   \* st.session_state["found_indices"]
    started,         \* st.session_state["started"]
    complete,        \* st.session_state["complete"]
    disabled_next,   \* disabled_next as the last script run rendered the Next Step button
    error,           \* the st.error message the last script run showed, or "none"
    cmd,             \* what triggered the last script run
    advances,        \* history: Next Step clicks since the session was started
    session_text,    \* history: the text the held steps were generated from
    session_pattern  \* history: the pattern the held steps were generated from

vars == <<text, pattern, text_input, pattern_input, steps, step_idx, found_indices,
          started, complete, disabled_next, error, cmd, advances,
          session_text, session_pattern>>

-----------------------------------------------------------------------------
(* Bounds *)

\* Longest text / pattern a user types into the widgets of a session.
MaxTextLen == 2
MaxPatLen == 1
\* Longest text / pattern handed to the generator on its own.
GenMaxTextLen == 4
GenMaxPatLen == 3

Alphabet == {"A", "B"}

StringsUpTo(n) == UNION {[1..k -> Alphabet] : k \in 0..n}

TextInputs == StringsUpTo(MaxTextLen)
PatternInputs == StringsUpTo(MaxPatLen)
GenTexts == StringsUpTo(GenMaxTextLen)
GenPatterns == StringsUpTo(GenMaxPatLen)

-----------------------------------------------------------------------------
(* Program constants *)

\* Python's None as the value of step_idx ("None -> not started").
None == -2

DefaultText == <<"A","A","B","A","A","C","A","A","D","A","A","B","A","A","B","A">>
DefaultPattern == <<"A","A","B","A">>

\* The three values of a step's 'match' field: None, False, True.
MatchNone == "None"
MatchFalse == "False"
MatchTrue == "True"

-----------------------------------------------------------------------------
(* 1) Algorithm: naive_search_steps *)

\* The dict appended at each steps.append(...)
Step(ti, pi, sh, ma, fi) ==
    [text_idx |-> ti, pattern_idx |-> pi, shift |-> sh, match |-> ma, found_indices |-> fi]

\* Mutant of PendingStep: the shift and pattern_idx values swapped.
PendingStep_SwappedFields(i, j) == Step(i + j, i, j, MatchNone, <<>>)

\* "Before comparison"
PendingStep(i, j) == Step(i + j, j, i, MatchNone, <<>>)

\* "Mismatch"
MismatchStep(i, j) == Step(i + j, j, i, MatchFalse, <<>>)

\* Mutant of FullMatchStep: text_idx one past the last compared character.
FullMatchStep_TextIdxPastEnd(i, m) == Step(i + m, m - 1, i, MatchTrue, <<i>>)

\* "Full match" (the for-else branch)
FullMatchStep(i, m) == Step(i + m - 1, m - 1, i, MatchTrue, <<i>>)

\* text[i + j] != pattern[j]
Differs(t, p, i, j) == t[i + j + 1] # p[j + 1]

\* Mutant of LastShift: range(n - m), the last alignment never tried.
LastShift_OffByOne(n, m) == n - m - 1

\* range(n - m + 1): the last shift the outer loop tries
LastShift(n, m) == n - m

RECURSIVE InnerLoop(_, _, _, _)
\* for j in range(m): ... else: ...  -- the steps of shift i from offset j on
InnerLoop(t, p, i, j) ==
    IF j >= Len(p)
    THEN <<FullMatchStep(i, Len(p))>>
    ELSE <<PendingStep(i, j)>> \o
         (IF Differs(t, p, i, j)
          THEN <<MismatchStep(i, j)>>
          ELSE InnerLoop(t, p, i, j + 1))

RECURSIVE OuterLoop(_, _, _)
\* for i in range(n - m + 1): ...  -- the steps of shifts i, i+1, ...
OuterLoop(t, p, i) ==
    IF i > LastShift(Len(t), Len(p))
    THEN <<>>
    ELSE InnerLoop(t, p, i, 0) \o OuterLoop(t, p, i + 1)

\* Mutant of naive_search_steps: no m == 0 guard.
naive_search_steps_NoEmptyGuard(t, p) ==
    IF Len(t) < Len(p)
    THEN <<>>
    ELSE OuterLoop(t, p, 0)

naive_search_steps(t, p) ==
    IF Len(p) = 0 \/ Len(t) < Len(p)
    THEN <<>>
    ELSE OuterLoop(t, p, 0)

-----------------------------------------------------------------------------
(* 2) State helpers *)

\* The five walker keys of st.session_state, as one record.
Session ==
    [steps |-> steps, step_idx |-> step_idx, found_indices |-> found_indices,
     started |-> started, complete |-> complete]

\* Mutant of reset_state: found_indices is not cleared.
reset_state_KeepsFound(s) ==
    [steps |-> <<>>, step_idx |-> None, found_indices |-> s.found_indices,
     started |-> FALSE, complete |-> FALSE]

\* Mutant of reset_state: complete is not cleared.
reset_state_KeepsComplete(s) ==
    [steps |-> <<>>, step_idx |-> None, found_indices |-> <<>>,
     started |-> FALSE, complete |-> s.complete]

reset_state(s) ==
    [steps |-> <<>>, step_idx |-> None, found_indices |-> <<>>,
     started |-> FALSE, complete |-> FALSE]

-----------------------------------------------------------------------------
(* 4) UI: the handlers of one script run *)

\* The message of the validation branch the Start Search handler takes.
StartError(t, p) ==
    IF Len(t) = 0 \/ Len(p) = 0 THEN "Text and Pattern cannot be empty."
    ELSE IF Len(p) > Len(t) THEN "Pattern cannot be longer than the text."
    ELSE "none"

\* Mutant of StartHandler: the old session is discarded before validation.
StartHandler_ResetsOnReject(s, t, p) ==
    IF StartError(t, p) # "none"
    THEN reset_state(s)
    ELSE [steps |-> naive_search_steps(t, p), step_idx |-> -1, found_indices |-> <<>>,
          started |-> TRUE, complete |-> FALSE]

\* Mutant of StartHandler: found_indices is not cleared.
StartHandler_KeepsFound(s, t, p) ==
    IF StartError(t, p) # "none"
    THEN s
    ELSE [steps |-> naive_search_steps(t, p), step_idx |-> -1,
          found_indices |-> s.found_indices, started |-> TRUE, complete |-> FALSE]

\* if st.button("Start Search"): ...
StartHandler(s, t, p) ==
    IF StartError(t, p) # "none"
    THEN s
    ELSE [steps |-> naive_search_steps(t, p), step_idx |-> -1, found_indices |-> <<>>,
          started |-> TRUE, complete |-> FALSE]

\* disabled_next = not started or complete
DisabledNext(s) == ~s.started \/ s.complete

\* Mutant of AdvanceCursor: on a full match the step's text_idx is recorded
\* instead of its found_indices.
AdvanceCursor_AppendsTextIdx(s) ==
    LET idx == s.step_idx + 1
        step == s.steps[idx + 1]
    IN [s EXCEPT !.step_idx = idx,
                 !.found_indices =
                     IF step.match = MatchTrue /\ step.found_indices # <<>>
                     THEN @ \o <<step.text_idx>>
                     ELSE @]

\* step_idx += 1; step = steps[step_idx]; extend found_indices on a full match
AdvanceCursor(s) ==
    LET idx == s.step_idx + 1
        step == s.steps[idx + 1]
    IN [s EXCEPT !.step_idx = idx,
                 !.found_indices =
                     IF step.match = MatchTrue /\ step.found_indices # <<>>
                     THEN @ \o step.found_indices
                     ELSE @]

\* Mutant of NextHandler: the cursor advances, found_indices is never extended.
NextHandler_NoAccumulate(s) ==
    IF s.step_idx = None
    THEN s
    ELSE IF s.step_idx < Len(s.steps) - 1
         THEN [s EXCEPT !.step_idx = @ + 1]
         ELSE [s EXCEPT !.complete = TRUE]

\* Mutant of NextHandler: the cursor is incremented a second time when the
\* step it entered is not the last one.
NextHandler_DoubleStep(s) ==
    IF s.step_idx = None
    THEN s
    ELSE IF s.step_idx < Len(s.steps) - 1
         THEN LET s1 == AdvanceCursor(s)
              IN IF s1.step_idx < Len(s.steps) - 1 THEN AdvanceCursor(s1) ELSE s1
         ELSE [s EXCEPT !.complete = TRUE]

\* Mutant of NextHandler: complete is set as soon as the cursor enters the
\* last step.
NextHandler_EagerComplete(s) ==
    IF s.step_idx = None
    THEN s
    ELSE IF s.step_idx < Len(s.steps) - 1
         THEN LET s1 == AdvanceCursor(s)
              IN [s1 EXCEPT !.complete = (s1.step_idx = Len(s.steps) - 1)]
         ELSE [s EXCEPT !.complete = TRUE]

\* Mutant of NextHandler: no "not started" guard, so a click that arrives
\* when nothing is started takes the completion branch.
NextHandler_NoNoneGuard(s) ==
    IF s.step_idx # None /\ s.step_idx < Len(s.steps) - 1
    THEN AdvanceCursor(s)
    ELSE [s EXCEPT !.complete = TRUE]

\* if st.button("Next Step", disabled=disabled_next): ...
NextHandler(s) ==
    IF s.step_idx = None
    THEN s
    ELSE IF s.step_idx < Len(s.steps) - 1
         THEN AdvanceCursor(s)
         ELSE [s EXCEPT !.complete = TRUE]

\* st.text_input(label, value=v, key=...): what the widget returns in a run
\* where the browser holds w and the value= argument is v.  The widget keeps
\* the browser's value, or is re-created with its default v when v has
\* changed since it was built; which one depends on the Streamlit release.
WidgetValue(v, w) == {v, w}

\* One run of the script, triggered by `button` ("edit" when a text widget
\* changed and no button was pressed), the browser holding tw and pw.
ScriptRun(button, tw, pw) ==
    \E ti \in WidgetValue(text, tw), pi \in WidgetValue(pattern, pw) :
        LET s1 == IF button = "start" THEN StartHandler(Session, ti, pi) ELSE Session
            s2 == IF button = "next" THEN NextHandler(s1) ELSE s1
            s3 == IF button = "reset" THEN reset_state(s2) ELSE s2
        IN /\ text_input' = ti
           /\ pattern_input' = pi
           /\ text' = (IF button = "reset" THEN DefaultText ELSE ti)
           /\ pattern' = (IF button = "reset" THEN DefaultPattern ELSE pi)
           /\ steps' = s3.steps
           /\ step_idx' = s3.step_idx
           /\ found_indices' = s3.found_indices
           /\ started' = s3.started
           /\ complete' = s3.complete
           /\ disabled_next' = DisabledNext(s1)
           /\ error' = (IF button = "start" THEN StartError(ti, pi) ELSE "none")
           /\ cmd' = button
           /\ advances' = (IF ~s3.started \/ (button = "start" /\ StartError(ti, pi) = "none")
                           THEN 0
                           ELSE IF button = "next" THEN advances + 1 ELSE advances)
           /\ session_text' = (IF button = "reset" THEN <<>>
                               ELSE IF button = "start" /\ StartError(ti, pi) = "none" THEN ti
                               ELSE session_text)
           /\ session_pattern' = (IF button = "reset" THEN <<>>
                                  ELSE IF button = "start" /\ StartError(ti, pi) = "none" THEN pi
                                  ELSE session_pattern)

\* The state after the first script run (page load): init_state() and the
\* widgets built from the defaults.
Init ==
    /\ text = DefaultText
    /\ pattern = DefaultPattern
    /\ text_input = DefaultText
    /\ pattern_input = DefaultPattern
    /\ steps = <<>>
    /\ step_idx = None
    /\ found_indices = <<>>
    /\ started = FALSE
    /\ complete = FALSE
    /\ disabled_next = TRUE
    /\ error = "none"
    /\ cmd = "load"
    /\ advances = 0
    /\ session_text = <<>>
    /\ session_pattern = <<>>

\* The user changes the Text field.
EditText == \E v \in TextInputs : v # text_input /\ ScriptRun("edit", v, pattern_input)

\* The user changes the Pattern field.
EditPattern == \E v \in PatternInputs : v # pattern_input /\ ScriptRun("edit", text_input, v)

\* The user clicks Start Search.
StartSearch == ScriptRun("start", text_input, pattern_input)

\* The user clicks Next Step, which the last run rendered enabled.
NextStep == ~disabled_next /\ ScriptRun("next", text_input, pattern_input)

\* The user clicks Reset.
Reset == ScriptRun("reset", text_input, pattern_input)

Next == EditText \/ EditPattern \/ StartSearch \/ NextStep \/ Reset

Spec == Init /\ [][Next]_vars

-----------------------------------------------------------------------------
(* A started session that is only advanced: the state right after an accepted
   Start Search, followed by Next Step clicks alone, made for as long as the
   button stays enabled. *)

InitWalk ==
    \E t \in TextInputs \cup {DefaultText}, p \in PatternInputs \cup {DefaultPattern} :
        LET s == StartHandler(reset_state(Session), t, p)
        IN /\ StartError(t, p) = "none"
           /\ text = t
           /\ pattern = p
           /\ text_input = t
           /\ pattern_input = p
           /\ steps = s.steps
           /\ step_idx = s.step_idx
           /\ found_indices = s.found_indices
           /\ started = s.started
           /\ complete = s.complete
           /\ disabled_next = DisabledNext(s)
           /\ error = "none"
           /\ cmd = "start"
           /\ advances = 0
           /\ session_text = t
           /\ session_pattern = p

NextWalk == NextStep

SpecWalk == InitWalk /\ [][NextWalk]_vars /\ WF_vars(NextStep)

-----------------------------------------------------------------------------
(* What a script run shows, as functions of the state it leaves *)

\* The text and pattern handed to render_visual: the widgets' current values
\* (the keys text_input and pattern_input exist once the widgets are built).
RenderText == text_input
RenderPattern == pattern_input

\* "When finished, mirror Tkinter's summary": the st.success / st.warning
\* message of the run, if any.
Summary ==
    IF started /\ step_idx # None /\ step_idx >= Len(steps) - 1 /\ complete
    THEN IF found_indices # <<>>
         THEN [kind |-> "found", indices |-> found_indices]
         ELSE [kind |-> "not found", indices |-> <<>>]
    ELSE [kind |-> "none", indices |-> <<>>]

-----------------------------------------------------------------------------
(* 3) Rendering: render_visual as the grid it builds *)

\* Mutant of current_step: no step_idx == -1 case, so -1 indexes steps from
\* the end as Python does.
current_step_NoInitialCase ==
    IF started
    THEN IF step_idx = -1 THEN <<steps[Len(steps)]>>
         ELSE IF 0 <= step_idx /\ step_idx < Len(steps) THEN <<steps[step_idx + 1]>>
         ELSE <<>>
    ELSE <<>>

\* current_step of the script: <<>> stands for None, <<st>> for the step st.
current_step ==
    IF started
    THEN IF step_idx = -1 THEN <<>>
         ELSE IF 0 <= step_idx /\ step_idx < Len(steps) THEN <<steps[step_idx + 1]>>
         ELSE <<>>
    ELSE <<>>

\* "Determine current step details": shift, match_status, text_idx,
\* pattern_idx and step_found of the step, or their values for step None.
StepDetails(cs) ==
    IF cs = <<>>
    THEN [shift |-> 0, match |-> MatchNone, text_idx |-> None, pattern_idx |-> None,
          found_indices |-> <<>>]
    ELSE [shift |-> cs[1].shift, match |-> cs[1].match, text_idx |-> cs[1].text_idx,
          pattern_idx |-> cs[1].pattern_idx, found_indices |-> cs[1].found_indices]

\* previously_found_positions: fi + k for fi in found_indices_so_far, k in range(m)
previously_found_positions(found, m) ==
    {found[a] + k : a \in DOMAIN found, k \in 0..(m - 1)}

\* current_match_positions: the cells of the match this step reports
current_match_positions(d, m) ==
    IF d.match = MatchTrue /\ d.found_indices # <<>>
    THEN {d.found_indices[1] + k : k \in 0..(m - 1)}
    ELSE {}

\* html.escape(ch) on one character
Escape(ch) ==
    CASE ch = "&" -> "&amp;"
      [] ch = "<" -> "&lt;"
      [] ch = ">" -> "&gt;"
      [] ch = "\"" -> "&quot;"
      [] ch = "'" -> "&#x27;"
      [] OTHER -> ch

\* Row 1: the columns that get a pattern index label
PatternLabelCols(n, m, d) == {d.shift + i + 1 : i \in 0..(m - 1)} \cap (1..n)

\* Row 4: the columns that get a text index label
TextLabelCols(n) == 1..n

\* Mutant of PatternCellClasses: on a full match only the cell at
\* pattern_idx is marked.
PatternCellClasses_MatchOneCell(d, i) ==
    IF d.match = MatchNone /\ i = d.pattern_idx THEN <<"char", "comparing">>
    ELSE IF d.match = MatchFalse /\ i = d.pattern_idx THEN <<"char", "mismatch">>
    ELSE IF d.match = MatchTrue /\ i = d.pattern_idx THEN <<"char", "match">>
    ELSE <<"char">>

\* Row 2: the class list of the pattern box at offset i
PatternCellClasses(d, i) ==
    IF d.match = MatchNone /\ i = d.pattern_idx THEN <<"char", "comparing">>
    ELSE IF d.match = MatchFalse /\ i = d.pattern_idx THEN <<"char", "mismatch">>
    ELSE IF d.match = MatchTrue THEN <<"char", "match">>
    ELSE <<"char">>

\* Row 2: the pattern boxes drawn, by offset (those with 1 <= col <= n)
PatternRow(t, p, cs) ==
    LET d == StepDetails(cs)
    IN [i \in {i \in 0..(Len(p) - 1) : 1 <= d.shift + i + 1 /\ d.shift + i + 1 <= Len(t)} |->
           [col |-> d.shift + i + 1,
            classes |-> PatternCellClasses(d, i),
            ch |-> Escape(p[i + 1])]]

\* Mutant of TextCellClasses: the step's highlight is appended to the class
\* list instead of replacing it.
TextCellClasses_Appends(d, prev, cur, i) ==
    LET classes == IF i \in prev THEN <<"char", "found">> ELSE <<"char">>
    IN IF d.match = MatchNone /\ i = d.text_idx THEN Append(classes, "comparing")
       ELSE IF d.match = MatchFalse /\ i = d.text_idx THEN Append(classes, "mismatch")
       ELSE IF d.match = MatchTrue /\ i \in cur THEN Append(classes, "match")
       ELSE classes

\* Row 3: the class list of the text box at index i
TextCellClasses(d, prev, cur, i) ==
    LET classes == IF i \in prev THEN <<"char", "found">> ELSE <<"char">>
    IN IF d.match = MatchNone /\ i = d.text_idx THEN <<"char", "comparing">>
       ELSE IF d.match = MatchFalse /\ i = d.text_idx THEN <<"char", "mismatch">>
       ELSE IF d.match = MatchTrue /\ i \in cur THEN <<"char", "match">>
       ELSE classes

\* Row 3: the text boxes, by index
TextRow(t, p, cs, found) ==
    LET d == StepDetails(cs)
        prev == previously_found_positions(found, Len(p))
        cur == current_match_positions(d, Len(p))
    IN [i \in 0..(Len(t) - 1) |->
           [col |-> i + 1,
            classes |-> TextCellClasses(d, prev, cur, i),
            ch |-> Escape(t[i + 1])]]

\* render_visual(text, pattern, step, found_indices_so_far)
render_visual(t, p, cs, found) ==
    [grid_cols |-> Len(t),
     pattern_labels |-> PatternLabelCols(Len(t), Len(p), StepDetails(cs)),
     pattern_row |-> PatternRow(t, p, cs),
     text_row |-> TextRow(t, p, cs, found),
     text_labels |-> TextLabelCols(Len(t))]

\* html_vis = render_visual(text, pattern, current_step, found_indices)
html_vis == render_visual(RenderText, RenderPattern, current_step, found_indices)

-----------------------------------------------------------------------------
(* The generator on its own: inputs drawn from bounded sets, one call. *)

InitGen ==
    /\ text_input \in GenTexts
    /\ pattern_input \in GenPatterns
    /\ text = text_input
    /\ pattern = pattern_input
    /\ steps = <<>>
    /\ step_idx = None
    /\ found_indices = <<>>
    /\ started = FALSE
    /\ complete = FALSE
    /\ disabled_next = TRUE
    /\ error = "none"
    /\ cmd = "load"
    /\ advances = 0
    /\ session_text = <<>>
    /\ session_pattern = <<>>

Generate ==
    /\ cmd = "load"
    /\ steps' = naive_search_steps(text_input, pattern_input)
    /\ cmd' = "generate"
    /\ UNCHANGED <<text, pattern, text_input, pattern_input, step_idx, found_indices,
                   started, complete, disabled_next, error, advances,
                   session_text, session_pattern>>

NextGen == Generate

SpecGen == InitGen /\ [][NextGen]_vars

-----------------------------------------------------------------------------
(* Properties of the generator (checked under SpecGen) *)

\* 1 <= len(pattern) <= len(text)
ValidInput(t, p) == 1 <= Len(p) /\ Len(p) <= Len(t)

\* pattern occurs in text at 0-based index i: text[i .. i+m-1] = pattern
Occurs(t, p, i) == i + Len(p) <= Len(t) /\ SubSeq(t, i + 1, i + Len(p)) = p

\* The positions in ss of the FullMatch steps / of those with shift i
FullMatches(ss) == {k \in DOMAIN ss : ss[k].match = MatchTrue}
FullMatchesAt(ss, i) == {k \in FullMatches(ss) : ss[k].shift = i}

\* The positions in ss of the Pending steps with shift i
PendingAt(ss, i) == {k \in DOMAIN ss : ss[k].match = MatchNone /\ ss[k].shift = i}

\* C1: for 1 <= len(pattern) <= len(text) the generator emits a FullMatch step
\* with shift i exactly once if pattern occurs in text at i and never
\* otherwise, so the number of FullMatch steps is the number of (possibly
\* overlapping) occurrences.
C1_FullMatchIffOccurrence ==
    (cmd = "generate" /\ ValidInput(text_input, pattern_input)) =>
        /\ \A i \in 0..Len(text_input) :
               Cardinality(FullMatchesAt(steps, i)) =
                   IF Occurs(text_input, pattern_input, i) THEN 1 ELSE 0
        /\ \A k \in FullMatches(steps) : steps[k].shift \in 0..Len(text_input)
        /\ Cardinality(FullMatches(steps)) =
               Cardinality({i \in 0..Len(text_input) : Occurs(text_input, pattern_input, i)})

\* C1 witness: "AAAA" / "AA" generated, its three overlapping occurrences reported.
C1_Witness ==
    /\ cmd = "generate"
    /\ text_input = <<"A", "A", "A", "A">>
    /\ pattern_input = <<"A", "A">>
    /\ Cardinality(FullMatches(steps)) = 3

\* shift never decreases along the emitted sequence
ShiftNonDecreasing(ss) == \A k \in 1..(Len(ss) - 1) : ss[k].shift <= ss[k + 1].shift

\* C5 as stated: shift is non-decreasing and, within one shift, the
\* pattern_index of the Pending and Mismatch steps (taken in emitted order)
\* is strictly increasing starting at 0.
C5_Original ==
    cmd = "generate" =>
        /\ ShiftNonDecreasing(steps)
        /\ \A a, b \in DOMAIN steps :
               (/\ a < b
                /\ steps[a].shift = steps[b].shift
                /\ steps[a].match # MatchTrue
                /\ steps[b].match # MatchTrue) => steps[a].pattern_idx < steps[b].pattern_idx
        /\ \A k \in DOMAIN steps :
               (steps[k].match # MatchTrue /\ (k = 1 \/ steps[k - 1].shift # steps[k].shift))
                   => steps[k].pattern_idx = 0

\* C5 amended: shift is non-decreasing; within one shift the pattern_index of
\* the Pending steps is strictly increasing starting at 0; a Mismatch step
\* repeats the shift and pattern_index of the Pending step right before it.
C5_Monotonicity ==
    cmd = "generate" =>
        /\ ShiftNonDecreasing(steps)
        /\ \A a, b \in DOMAIN steps :
               (/\ a < b
                /\ steps[a].shift = steps[b].shift
                /\ steps[a].match = MatchNone
                /\ steps[b].match = MatchNone) => steps[a].pattern_idx < steps[b].pattern_idx
        /\ \A k \in DOMAIN steps :
               (steps[k].match = MatchNone /\ (k = 1 \/ steps[k - 1].shift # steps[k].shift))
                   => steps[k].pattern_idx = 0
        /\ \A k \in DOMAIN steps :
               (k = 1 \/ steps[k - 1].shift # steps[k].shift) => steps[k].match = MatchNone
        /\ \A k \in DOMAIN steps :
               steps[k].match = MatchFalse =>
                   /\ k > 1
                   /\ steps[k - 1].match = MatchNone
                   /\ steps[k - 1].shift = steps[k].shift
                   /\ steps[k - 1].pattern_idx = steps[k].pattern_idx

\* C5 witness: a trace with several shifts, one of which compares two offsets
\* before it mismatches.
C5_Witness ==
    /\ cmd = "generate"
    /\ \E k \in DOMAIN steps : steps[k].match = MatchFalse /\ steps[k].pattern_idx >= 1
    /\ \E k \in DOMAIN steps : steps[k].shift >= 2

-----------------------------------------------------------------------------
(* Properties of the session (checked under Spec) *)

\* The five walker keys, as a tuple
walker == <<steps, step_idx, found_indices, started, complete>>

\* The last script run was a Start Search click that passed validation.
StartAccepted == cmd = "start" /\ error = "none"

RECURSIVE FoundUpTo(_, _)
\* The found_at values of the first k steps of ss, in emitted order
FoundUpTo(ss, k) == IF k = 0 THEN <<>> ELSE FoundUpTo(ss, k - 1) \o ss[k].found_indices

\* C2: in a started session found_indices is the list of the found_at values
\* of the steps at indices 0..step_idx in emitted order (empty at Initial),
\* hence all of the generator's found_at values once the walk is complete.
C2_FoundIsPrefixOfTrace ==
    started =>
        /\ found_indices = FoundUpTo(steps, step_idx + 1)
        /\ complete => found_indices = FoundUpTo(steps, Len(steps))

\* C2 witness: a completed walk that collected two or more matches.
C2_Witness == started /\ complete /\ Len(found_indices) >= 2

\* C3: after k Next Step clicks from Initial (k <= len(steps)) the cursor is
\* k - 1; a click below the last step moves the cursor forward by exactly
\* one, and within a session the cursor never moves backward.
C3_CursorFollowsAdvances ==
    [][ /\ (started' /\ advances' <= Len(steps')) => step_idx' = advances' - 1
        /\ (cmd' = "next" /\ started /\ step_idx < Len(steps) - 1)
               => step_idx' = step_idx + 1
        /\ (started /\ started' /\ ~StartAccepted') => step_idx' >= step_idx ]_vars

\* C3 witness: len(steps) clicks after a start, the cursor on the last of
\* three or more steps.
C3_Witness ==
    /\ started
    /\ Len(steps) >= 3
    /\ advances = Len(steps)
    /\ step_idx = Len(steps) - 1
    /\ cmd = "next"

\* C4: the click that moves the cursor does not set complete; complete turns
\* true only by a Next Step click made with the cursor already on the last
\* step, which leaves cursor and found_indices alone; and the summary is
\* shown only when complete is true: the found indices, or "not found" when
\* there are none.
C4_TwoPhaseCompletion ==
    [][ /\ (cmd' = "next" /\ step_idx' # step_idx) => ~complete'
        /\ (~complete /\ complete') =>
               /\ cmd' = "next"
               /\ started
               /\ step_idx = Len(steps) - 1
               /\ step_idx' = step_idx
               /\ found_indices' = found_indices
               /\ steps' = steps
        /\ Summary'.kind # "none" => complete'
        /\ Summary'.kind = "found" => Summary'.indices = found_indices' /\ found_indices' # <<>>
        /\ Summary'.kind = "not found" => found_indices' = <<>> ]_vars

\* C4 witness: the extra click on the last step has been made and the
\* summary lists the found indices.
C4_Witness ==
    /\ cmd = "next"
    /\ complete
    /\ advances = Len(steps) + 1
    /\ step_idx = Len(steps) - 1
    /\ Summary.kind = "found"

\* C6: from a successful start until the next reset or successful start, the
\* text and pattern rendered are the strings the session was started with,
\* those the held step sequence was generated from.
C6_RenderUsesSessionStrings ==
    [][ /\ StartAccepted' => steps' = naive_search_steps(RenderText', RenderPattern')
        /\ (started /\ started' /\ ~StartAccepted')
               => (RenderText' = RenderText /\ RenderPattern' = RenderPattern) ]_vars

\* C7: a Start Search click with an empty text, an empty pattern or a pattern
\* longer than the text shows a validation error and leaves steps, step_idx,
\* found_indices, started and complete as they were, in whatever state.
C7_RejectedStartChangesNothing ==
    [][ (cmd' = "start" /\ ~ValidInput(text_input', pattern_input'))
            => (error' # "none" /\ UNCHANGED walker) ]_vars

\* C7 witness: a start rejected in the middle of a walk.
C7_Witness ==
    /\ cmd = "start"
    /\ error = "Pattern cannot be longer than the text."
    /\ started
    /\ step_idx >= 0
    /\ found_indices # <<>>

\* C8: a Start Search click with a valid text and pattern leaves the session
\* in Initial, whatever state it was in: steps is the generator's output for
\* that text and pattern, found_indices is empty, the cursor is -1, complete
\* is false.
C8_StartEntersInitial ==
    (cmd = "start" /\ ValidInput(text_input, pattern_input)) =>
        /\ error = "none"
        /\ started
        /\ steps = naive_search_steps(text_input, pattern_input)
        /\ steps # <<>>
        /\ found_indices = <<>>
        /\ step_idx = -1
        /\ ~complete

\* C8 witness: a session started on "AB" / "B".
C8_Witness ==
    /\ cmd = "start"
    /\ text_input = <<"A", "B">>
    /\ pattern_input = <<"B">>
    /\ started
    /\ Len(steps) = 4

\* C9: a Reset click in any state leaves the session NotStarted: steps empty,
\* step_idx None, found_indices empty, started and complete false.
C9_ResetEntersNotStarted ==
    cmd = "reset" =>
        /\ steps = <<>>
        /\ step_idx = None
        /\ found_indices = <<>>
        /\ ~started
        /\ ~complete

\* C9 witness: Reset clicked in a run that still rendered Next Step enabled,
\* that is, in a started session that was not complete.
C9_Witness == cmd = "reset" /\ ~disabled_next /\ ~started

\* C10: a Next Step click that arrives while nothing is started changes none
\* of steps, step_idx, found_indices, started and complete.
C10_AdvanceWhenNotStartedIsNoOp ==
    [][ (cmd' = "next" /\ ~started) => UNCHANGED walker ]_vars

\* C10 witness: Next Step clicked right after a reset.
C10_Witness == cmd = "next" /\ ~started /\ step_idx = None

\* C11: found_indices is strictly increasing, and each of its elements is an
\* index at which the session's pattern occurs in the session's text.
C11_FoundAreIncreasingOccurrences ==
    /\ \A a, b \in DOMAIN found_indices : a < b => found_indices[a] < found_indices[b]
    /\ \A a \in DOMAIN found_indices :
           Occurs(session_text, session_pattern, found_indices[a])

\* C11 witness: two matches collected half-way through the default walk.
C11_Witness ==
    /\ started
    /\ ~complete
    /\ session_text = DefaultText
    /\ session_pattern = DefaultPattern
    /\ found_indices = <<0, 9>>

\* C15: the generator returns the empty sequence whenever the pattern is
\* empty or longer than the text.  (Checked under SpecGen.)
C15_EmptyForInvalidInput ==
    (cmd = "generate" /\ (Len(pattern_input) = 0 \/ Len(pattern_input) > Len(text_input)))
        => steps = <<>>

\* C15 witness: the generator called with an empty pattern and a non-empty text.
C15_Witness ==
    cmd = "generate" /\ pattern_input = <<>> /\ Len(text_input) >= 2 /\ steps = <<>>

\* C16: the session started on the default text and pattern, walked to
\* Completed, has found_indices = [0, 9, 12], and the summary reports them.
C16_DefaultScenario ==
    (/\ started
     /\ complete
     /\ session_text = DefaultText
     /\ session_pattern = DefaultPattern) =>
        /\ found_indices = <<0, 9, 12>>
        /\ Summary = [kind |-> "found", indices |-> <<0, 9, 12>>]

\* C16 witness: the default session completed by Next Step clicks alone.
C16_Witness ==
    /\ started
    /\ complete
    /\ session_text = DefaultText
    /\ session_pattern = DefaultPattern
    /\ cmd = "next"
    /\ advances = Len(steps) + 1

\* C17: every emitted step has 0 <= shift <= n - m, 0 <= pattern_idx < m and
\* text_idx = shift + pattern_idx < n; found_indices is [shift] on a FullMatch
\* step, whose pattern_idx is m - 1, and empty otherwise.  (Checked under
\* SpecGen.)
C17_StepFieldsInRange ==
    cmd = "generate" =>
        \A k \in DOMAIN steps :
            LET st == steps[k]
                n == Len(text_input)
                m == Len(pattern_input)
            IN /\ 0 <= st.shift /\ st.shift <= n - m
               /\ 0 <= st.pattern_idx /\ st.pattern_idx < m
               /\ st.text_idx = st.shift + st.pattern_idx
               /\ st.text_idx < n
               /\ st.match \in {MatchNone, MatchFalse, MatchTrue}
               /\ st.match = MatchTrue =>
                      (st.found_indices = <<st.shift>> /\ st.pattern_idx = m - 1)
               /\ st.match # MatchTrue => st.found_indices = <<>>

\* C17 witness: a trace holding a FullMatch step at the last shift of a
\* text longer than the pattern.
C17_Witness ==
    /\ cmd = "generate"
    /\ Len(pattern_input) >= 2
    /\ Len(text_input) > Len(pattern_input)
    /\ \E k \in DOMAIN steps :
           /\ steps[k].match = MatchTrue
           /\ steps[k].shift = Len(text_input) - Len(pattern_input)

\* C19: the walker keys are consistent: not started means steps empty,
\* step_idx None, found_indices empty and complete false; started means
\* steps non-empty and step_idx in -1..len(steps)-1; complete only when
\* started with step_idx = len(steps)-1.
C19_WalkerConsistent ==
    /\ ~started =>
           (steps = <<>> /\ step_idx = None /\ found_indices = <<>> /\ ~complete)
    /\ started =>
           (steps # <<>> /\ step_idx \in -1..(Len(steps) - 1))
    /\ complete => (started /\ step_idx = Len(steps) - 1)

\* C19 witness: a session in mid-walk right after a rejected start.
C19_Witness ==
    /\ started
    /\ ~complete
    /\ step_idx >= 0
    /\ step_idx < Len(steps) - 1
    /\ cmd = "start"
    /\ error # "none"

-----------------------------------------------------------------------------
(* Properties of the rendered grid (checked under Spec, on html_vis) *)

\* The highlight a class list stands for
Highlight(classes) == IF Len(classes) = 1 THEN "default" ELSE classes[2]

\* A step is current and its outcome is o
CurrentOutcomeIs(o) == current_step # <<>> /\ current_step[1].match = o

\* Index i lies inside a match of length m that starts at f
InMatch(i, f, m) == f <= i /\ i < f + m

\* C12: every text cell carries exactly one highlight, by priority: Comparing
\* at text_idx of a Pending step, Mismatch at text_idx of a Mismatch step,
\* Match on the cells of the match a FullMatch step reports; otherwise Found
\* inside a match of found_indices; otherwise Default.
C12_TextRowHighlight ==
    LET row == html_vis.text_row
        m == Len(RenderPattern)
    IN /\ DOMAIN row = 0..(Len(RenderText) - 1)
       /\ \A i \in DOMAIN row :
              /\ Len(row[i].classes) \in {1, 2}
              /\ row[i].classes[1] = "char"
              /\ Highlight(row[i].classes) =
                     IF CurrentOutcomeIs(MatchNone) /\ i = current_step[1].text_idx
                     THEN "comparing"
                     ELSE IF CurrentOutcomeIs(MatchFalse) /\ i = current_step[1].text_idx
                     THEN "mismatch"
                     ELSE IF /\ CurrentOutcomeIs(MatchTrue)
                             /\ InMatch(i, current_step[1].found_indices[1], m)
                     THEN "match"
                     ELSE IF \E a \in DOMAIN found_indices : InMatch(i, found_indices[a], m)
                     THEN "found"
                     ELSE "default"

\* C12 witness: a cell of an earlier match is the one being compared, and
\* another cell of that match shows Found.
C12_Witness ==
    /\ CurrentOutcomeIs(MatchNone)
    /\ \E a \in DOMAIN found_indices :
           /\ InMatch(current_step[1].text_idx, found_indices[a], Len(RenderPattern))
           /\ current_step[1].text_idx \in DOMAIN html_vis.text_row
    /\ \E i \in DOMAIN html_vis.text_row : Highlight(html_vis.text_row[i].classes) = "found"

\* C13: only the pattern cells whose column shift + offset lies in the
\* text's column range are drawn; of the drawn cells, at a Pending step
\* exactly the one at pattern_idx is Comparing, at a Mismatch step exactly
\* the one at pattern_idx is Mismatch, the others Default; at a FullMatch
\* step every drawn cell is Match.
C13_PatternRowHighlight ==
    LET row == html_vis.pattern_row
        sh == IF current_step = <<>> THEN 0 ELSE current_step[1].shift
    IN /\ DOMAIN row = {i \in 0..(Len(RenderPattern) - 1) : sh + i < Len(RenderText)}
       /\ \A i \in DOMAIN row :
              /\ row[i].col = sh + i + 1
              /\ Len(row[i].classes) \in {1, 2}
              /\ Highlight(row[i].classes) =
                     IF CurrentOutcomeIs(MatchNone)
                     THEN (IF i = current_step[1].pattern_idx THEN "comparing" ELSE "default")
                     ELSE IF CurrentOutcomeIs(MatchFalse)
                     THEN (IF i = current_step[1].pattern_idx THEN "mismatch" ELSE "default")
                     ELSE IF CurrentOutcomeIs(MatchTrue)
                     THEN "match"
                     ELSE "default"

\* C13 witness: a FullMatch step of a pattern of two or more characters, all
\* of its cells drawn.
C13_Witness ==
    /\ CurrentOutcomeIs(MatchTrue)
    /\ Len(RenderPattern) >= 2
    /\ DOMAIN html_vis.pattern_row = 0..(Len(RenderPattern) - 1)

\* C14: whenever no step is current the pattern is drawn at alignment 0 and
\* no cell of either row is highlighted; found_indices is empty then.
C14_NoStepNoHighlight ==
    /\ current_step = <<>> => found_indices = <<>>
    /\ (~started \/ step_idx = -1) =>
        /\ current_step = <<>>
        /\ \A i \in DOMAIN html_vis.text_row :
               html_vis.text_row[i].classes = <<"char">>
        /\ \A i \in DOMAIN html_vis.pattern_row :
               /\ html_vis.pattern_row[i].classes = <<"char">>
               /\ html_vis.pattern_row[i].col = i + 1
        /\ html_vis.pattern_labels = (1..Len(RenderPattern)) \cap (1..Len(RenderText))

\* C14 witness: a started session at the Initial position, its grid showing
\* text and pattern cells, after an edit of the inputs.
C14_Witness ==
    /\ started
    /\ step_idx = -1
    /\ cmd = "edit"
    /\ DOMAIN html_vis.text_row # {}
    /\ DOMAIN html_vis.pattern_row # {}

-----------------------------------------------------------------------------
(* Properties of the advancing session (checked under SpecWalk) *)

\* C18: from Initial, with Next Step clicked again and again and no start or
\* reset, the session reaches Completed, entering it on click number
\* len(steps) + 1; once Completed, further clicks change none of the
\* walker keys, so only a start or a reset leaves that state.
C18_WalkReachesCompleted ==
    /\ <>complete
    /\ [][(~complete /\ complete') => (cmd' = "next" /\ advances' = Len(steps) + 1)]_vars
    /\ [][complete => (complete' /\ UNCHANGED walker)]_vars

\* C18 witness: a click made after completion, the session still Completed.
C18_Witness ==
    /\ complete
    /\ cmd = "next"
    /\ advances = Len(steps) + 2
    /\ step_idx = Len(steps) - 1

====
